---------------------------- MODULE Spec2Model ----------------------------
(***************************************************************************)
(* Model of shogun's Nystrom kernel exponential family estimator,          *)
(* src/shogun/distributions/kernel_exp_family/impl/Nystrom.cpp.            *)
(*                                                                         *)
(* C++ vectors and matrices are 0-based; they are modelled as functions    *)
(* over 0..n-1 (a matrix M(r,c) is M[r][c]).  float64_t values are         *)
(* modelled as exact rationals <<numerator, denominator>> in lowest terms  *)
(* with a positive denominator: rounding is not modelled.                  *)
(***************************************************************************)
EXTENDS Integers, Sequences, FiniteSets, TLC

VARIABLES
    phase,              \* "none" | "constructed" | "fitted"
    mode,               \* which constructor ran: "explicit" | "random"
    m_data,             \* Base::m_data, by its shape [N |-> samples, D |-> coordinates]
    m_kernel,           \* Base::m_kernel, the derivative oracle handle
    m_lambda,           \* Base::m_lambda
    m_rkhs_basis_inds,  \* Nystrom::m_rkhs_basis_inds
    m_alpha_beta,       \* Base::m_alpha_beta
    call,               \* the last call made and what it returned
    par                 \* the state of a running `omp parallel for` loop

vars == <<phase, mode, m_data, m_kernel, m_lambda, m_rkhs_basis_inds,
          m_alpha_beta, call, par>>

estimator == <<phase, mode, m_data, m_kernel, m_lambda, m_rkhs_basis_inds,
               m_alpha_beta>>

(***************************************************************************)
(* Bounds of the model.                                                    *)
(***************************************************************************)
MaxN == 2
MaxD == 2
MaxM == 2
CodecMaxN == 4
CodecMaxD == 4
MaxSide == 2
MaxEig == 16

\* Values the regulariser, the fitted coefficients and stray memory take.
Lambdas == {0, 2}
ThetaBases == {1, 3}
GarbageVals == {0, 7}

NoCall == [op |-> "none"]
NoPar == [loop |-> "none"]

(***************************************************************************)
(* Exact rational arithmetic standing for float64_t.                       *)
(***************************************************************************)
Abs(x) == IF x < 0 THEN -x ELSE x

RECURSIVE GCD(_, _)
GCD(a, b) == IF b = 0 THEN a ELSE GCD(b, a % b)

Rat(n, d) ==
    LET s == IF d < 0 THEN -1 ELSE 1
        g == GCD(Abs(n), Abs(d))
    IN  <<(s * n) \div g, (s * d) \div g>>

RI(n) == <<n, 1>>
RZero == <<0, 1>>
RAdd(x, y) == Rat(x[1] * y[2] + y[1] * x[2], x[2] * y[2])
RNeg(x) == <<-x[1], x[2]>>
RSub(x, y) == RAdd(x, RNeg(y))
RMul(x, y) == Rat(x[1] * y[1], x[2] * y[2])
RDiv(x, y) == Rat(x[1] * y[2], x[2] * y[1])
RLt(x, y) == x[1] * y[2] < y[1] * x[2]
RLe(x, y) == x[1] * y[2] <= y[1] * x[2]
RAbs(x) == <<Abs(x[1]), x[2]>>

\* Sum of a vector (function over 0..n-1) of rationals, in index order.
RECURSIVE RSumTo(_, _)
RSumTo(v, n) == IF n = 0 THEN RZero ELSE RAdd(RSumTo(v, n - 1), v[n - 1])

RSum(v) == RSumTo(v, Cardinality(DOMAIN v))

\* Sum of a vector of integers (values no division has touched yet).
RECURSIVE ISumTo(_, _)
ISumTo(v, n) == IF n = 0 THEN 0 ELSE ISumTo(v, n - 1) + v[n - 1]

ISum(v) == ISumTo(v, Cardinality(DOMAIN v))

VLen(v) == Cardinality(DOMAIN v)
ToVec(s) == [i \in 0..(Len(s) - 1) |-> s[i + 1]]

(***************************************************************************)
(* C++ integer division and remainder (truncation toward zero), b > 0.     *)
(***************************************************************************)
CDiv(a, b) == IF a >= 0 THEN a \div b ELSE -((-a) \div b)
CMod(a, b) == a - b * CDiv(a, b)

(***************************************************************************)
(* Nystrom::idx_to_ai(idx, D): flat index -> (sample, coordinate).         *)
(***************************************************************************)
idx_to_ai_swapped(idx, D) == <<CMod(idx, D), CDiv(idx, D)>>

idx_to_ai(idx, D) == <<CDiv(idx, D), CMod(idx, D)>>

get_num_lhs == m_data.N
get_num_dimensions == m_data.D
get_num_rkhs_basis == VLen(m_rkhs_basis_inds)


(***************************************************************************)
(* The kernel derivative oracle (kernel::Base, an external collaborator).  *)
(* It is a pure function of the indices it is given.  A handle k selects   *)
(* one oracle of a small family: k.skew = 0 gives a mixed second           *)
(* derivative with dx_dy(a,b,i,j) = dx_dy(b,a,j,i), k.skew # 0 one         *)
(* without.  Nystrom.cpp forwards indices unchecked, so the oracle is      *)
(* total: it answers for any index.                                        *)
(***************************************************************************)
Kernels == {[skew |-> 0, shift |-> 1], [skew |-> 1, shift |-> 2]}

X(a, i) == 2 * a + i + 1

dx_dy_component(k, a, b, i, j) ==
    X(a, i) * X(b, j) + k.skew * (X(a, i) - X(b, j))

dx_dx_dy_component(k, a, b, i, j) == X(a, i) + 2 * X(b, j) + k.shift

dx_dx_dy_dy_component(k, a, b, i, j) == X(a, i) * X(a, i) - X(b, j) + k.shift

dx_dx_component(k, a, b, i) == X(a, i) - b + k.shift

dx_component(k, a, b, i) == X(a, i) * (b + 1) + k.skew

dx_i_dx_i_dx_j_component(k, a, b, i, D) ==
    [j \in 0..(D - 1) |-> X(a, i) + j * (b + 1) + k.shift]

dx_i_dx_j_component(k, a, b, i, D) ==
    [j \in 0..(D - 1) |-> X(a, i) * (j + 1) - b + k.skew]

dx_i_dx_j_dx_k_dx_k_row_sum_component(k, a, b, i, j) ==
    X(a, i) + X(b, j) + k.shift

dx_i_dx_j_dx_k_dx_k_row_sum(k, a, b, D) ==
    [i \in 0..(D - 1) |-> [j \in 0..(D - 1) |->
        dx_i_dx_j_dx_k_dx_k_row_sum_component(k, a, b, i, j)]]

\* The contraction of the third-order tensor with vec (a D-vector of rationals).
dx_i_dx_j_dx_k_dot_vec_component(k, a, b, vec, i, j) ==
    RSum([kk \in DOMAIN vec |-> RMul(RI(X(a, i) + j + kk + b + k.skew), vec[kk])])

dx_i_dx_j_dx_k_dot_vec(k, a, b, vec, D) ==
    [i \in 0..(D - 1) |-> [j \in 0..(D - 1) |->
        dx_i_dx_j_dx_k_dot_vec_component(k, a, b, vec, i, j)]]

(***************************************************************************)
(* CMath::qsort: ascending sort of an index vector.                        *)
(***************************************************************************)
RECURSIVE Insert(_, _)
Insert(s, x) ==
    IF s = <<>> THEN <<x>>
    ELSE IF x <= Head(s) THEN <<x>> \o s
    ELSE <<Head(s)>> \o Insert(Tail(s), x)

RECURSIVE qsortSeq(_)
qsortSeq(s) == IF s = <<>> THEN <<>> ELSE Insert(qsortSeq(Tail(s)), Head(s))

qsort(v) == ToVec(qsortSeq([i \in 1..VLen(v) |-> v[i - 1]]))

\* CMath::permute of range_fill(N*D), seen through its first m entries:
\* any m distinct indices of [0, N*D) in any order.
PermutedPrefixes(ND, m) ==
    {p \in [0..(m - 1) -> 0..(ND - 1)] :
        \A x, y \in 0..(m - 1) : x # y => p[x] # p[y]}

\* Nystrom::sub_sample_rkhs_basis, given the permutation's first entries.
sub_sample_rkhs_basis(prefix) == qsort(prefix)

(***************************************************************************)
(* Constructors.  The explicit one stores the caller's vector as it is:    *)
(* any length, any order, any entries (here 0..N*D, N*D being the          *)
(* out-of-range representative).                                           *)
(***************************************************************************)
ExplicitBases(ND) ==
    UNION {[0..(m - 1) -> 0..ND] : m \in 0..MaxM}

NystromExplicit ==
    /\ phase = "none"
    /\ \E n \in 1..MaxN, d \in 1..MaxD, k \in Kernels, lam \in Lambdas :
       \E rkhs_basis_inds \in ExplicitBases(n * d) :
          /\ m_data' = [N |-> n, D |-> d]
          /\ m_kernel' = k
          /\ m_lambda' = lam
          /\ m_rkhs_basis_inds' = rkhs_basis_inds
    /\ phase' = "constructed"
    /\ mode' = "explicit"
    /\ UNCHANGED <<m_alpha_beta, call, par>>

\* num_rkhs_basis is taken within 1..N*D, the range permutation[i] is defined on.
NystromRandom ==
    /\ phase = "none"
    /\ \E n \in 1..MaxN, d \in 1..MaxD, k \in Kernels, lam \in Lambdas :
       \E num_rkhs_basis \in 1..MaxM :
          /\ num_rkhs_basis <= n * d
          /\ \E prefix \in PermutedPrefixes(n * d, num_rkhs_basis) :
                m_rkhs_basis_inds' = sub_sample_rkhs_basis(prefix)
          /\ m_data' = [N |-> n, D |-> d]
          /\ m_kernel' = k
          /\ m_lambda' = lam
    /\ phase' = "constructed"
    /\ mode' = "random"
    /\ UNCHANGED <<m_alpha_beta, call, par>>

(***************************************************************************)
(* Nystrom::compute_h and Nystrom::compute_xi_norm_2.                      *)
(***************************************************************************)
basis_ai(idx) == idx_to_ai(m_rkhs_basis_inds[idx], get_num_dimensions)

\* The inner double loop of compute_h for basis position idx.
h_accumulate(idx) ==
    LET bj == basis_ai(idx)
    IN  ISum([idx_a \in 0..(get_num_lhs - 1) |->
            ISum([i \in 0..(get_num_dimensions - 1) |->
                dx_dx_dy_component(m_kernel, idx_a, bj[1], i, bj[2])])])

compute_h ==
    [idx \in 0..(get_num_rkhs_basis - 1) |->
        Rat(h_accumulate(idx), get_num_lhs)]

xi_accumulate ==
    ISum([idx \in 0..(get_num_rkhs_basis - 1) |->
        ISum([idx_b \in 0..(get_num_lhs - 1) |->
            ISum([j \in 0..(get_num_dimensions - 1) |->
                LET ai == basis_ai(idx)
                IN  dx_dx_dy_dy_component(m_kernel, ai[1], idx_b, ai[2], j)])])])

compute_xi_norm_2_by_N ==
    Rat(xi_accumulate, get_num_lhs)

compute_xi_norm_2 ==
    Rat(xi_accumulate, get_num_lhs * get_num_lhs)

(***************************************************************************)
(* Nystrom::build_system.                                                  *)
(***************************************************************************)
\* col_sub_sampled_hessian(row_idx, idx) as the loop of lines 136-141 fills it.
hessian_cell(row_idx, idx) ==
    LET ai == basis_ai(idx)
        bj == idx_to_ai(row_idx, get_num_dimensions)
    IN  dx_dy_component(m_kernel, ai[1], bj[1], ai[2], bj[2])

col_sub_sampled_hessian ==
    [row_idx \in 0..(get_num_lhs * get_num_dimensions - 1) |->
        [idx \in 0..(get_num_rkhs_basis - 1) |-> hessian_cell(row_idx, idx)]]

\* SGMatrix::operator()(r, c) on the column-major ND x m buffer of G, which
\* checks no bounds: the cell at offset r + c*ND.  `written` tells which
\* cells hold their value already; any other cell, and any offset outside
\* the buffer, reads as the stray value g.
matrix_read(G, written, r, c, g) ==
    LET ND == get_num_lhs * get_num_dimensions
        off == r + c * ND
        cell == <<off % ND, off \div ND>>
    IN  IF off >= 0 /\ off < ND * get_num_rkhs_basis /\ cell \in written
        THEN G[cell[1]][cell[2]]
        ELSE g

AllCells ==
    (0..(get_num_lhs * get_num_dimensions - 1)) \X (0..(get_num_rkhs_basis - 1))

\* Cells of G that worker idx can rely on at line 144: its own column; the
\* columns of the workers before it when the loop runs in order; all of
\* them when the other workers have run ahead (seen).
cells_written(idx, seen) ==
    {cl \in AllCells : seen \/ cl[2] <= idx}

sub_sampled_hessian(G, g, seen) ==
    [row_idx \in 0..(get_num_rkhs_basis - 1) |->
        [idx \in 0..(get_num_rkhs_basis - 1) |->
            matrix_read(G, cells_written(idx, seen),
                        m_rkhs_basis_inds[row_idx], idx, g)]]

squaredNorm(v) == RSum([c \in DOMAIN v |-> RMul(v[c], v[c])])

\* Lines 148-152: A(0,0), the inner block and the first column; row 0 beyond
\* A(0,0) is not written yet.
populate_A(h, xi_norm_2, G, Ghat, g) ==
    LET N == RI(get_num_lhs)
        lam == RI(m_lambda)
        m == get_num_rkhs_basis
        ND == get_num_lhs * get_num_dimensions
    IN  [r \in 0..m |-> [c \in 0..m |->
          IF r = 0 /\ c = 0
            THEN RAdd(RDiv(squaredNorm(h), N), RMul(lam, xi_norm_2))
          ELSE IF r = 0
            THEN RI(g)
          ELSE IF c = 0
            THEN RAdd(RDiv(RSum([x \in 0..(m - 1) |->
                                RMul(RI(Ghat[r - 1][x]), h[x])]), N),
                      RMul(lam, h[r - 1]))
          ELSE RAdd(Rat(ISum([x \in 0..(ND - 1) |-> G[x][r - 1] * G[x][c - 1]]),
                        get_num_lhs),
                    RI(m_lambda * Ghat[r - 1][c - 1]))]]

mirror_first_row_shifted(A) ==
    [A EXCEPT ![0] = [c \in DOMAIN A |->
        IF c = 0 THEN A[0][0] ELSE A[c - 1][0]]]

\* Lines 154-155: A(0, idx+1) = A(idx+1, 0).
mirror_first_row(A) ==
    [A EXCEPT ![0] = [c \in DOMAIN A |->
        IF c = 0 THEN A[0][0] ELSE A[c][0]]]

rhs_b(h, xi_norm_2) ==
    [c \in 0..get_num_rkhs_basis |->
        IF c = 0 THEN RNeg(xi_norm_2) ELSE RNeg(h[c - 1])]

\* A read of G outside its rows happens only for a basis entry outside
\* [0, N*D); only then do the stray value and the workers' order matter.
BasisInRange ==
    \A idx \in DOMAIN m_rkhs_basis_inds :
        m_rkhs_basis_inds[idx] \in 0..(get_num_lhs * get_num_dimensions - 1)

StrayValues == IF BasisInRange THEN {0} ELSE GarbageVals
RunAheads == IF BasisInRange THEN {FALSE} ELSE BOOLEAN

build_system(g, seen) ==
    LET h == compute_h
        xi_norm_2 == compute_xi_norm_2
        G == col_sub_sampled_hessian
        Ghat == sub_sampled_hessian(G, g, seen)
    IN  [A |-> mirror_first_row(populate_A(h, xi_norm_2, G, Ghat, g)),
         b |-> rhs_b(h, xi_norm_2)]

BuildSystem ==
    /\ phase # "none"
    /\ call = NoCall
    /\ \E g \in StrayValues, seen \in RunAheads :
          call' = [op |-> "build_system"] @@ build_system(g, seen)
    /\ UNCHANGED <<estimator, par>>

(***************************************************************************)
(* The fit (Base::fit): build the system, solve it, store the solution in  *)
(* m_alpha_beta, a vector of length m+1.  The solution itself is not       *)
(* computed here: it ranges over vectors with distinct non-zero entries.   *)
(***************************************************************************)
Solutions ==
    {[k \in 0..get_num_rkhs_basis |-> RI(base + k)] : base \in ThetaBases}

Fit ==
    /\ phase = "constructed"
    /\ call = NoCall
    /\ \E theta \in Solutions : m_alpha_beta' = theta
    /\ phase' = "fitted"
    /\ UNCHANGED <<mode, m_data, m_kernel, m_lambda, m_rkhs_basis_inds, call, par>>

(***************************************************************************)
(* Evaluators.  They read m_alpha_beta, which exists once fitted.  None    *)
(* checks idx_test: it is handed to the oracle as it is.                   *)
(***************************************************************************)
TestIndices == 0..get_num_lhs

VZero(n) == [x \in 0..(n - 1) |-> RZero]
VAdd(u, v) == [x \in DOMAIN u |-> RAdd(u[x], v[x])]
VScale(c, v) == [x \in DOMAIN v |-> RMul(c, v[x])]
VInt(v) == [x \in DOMAIN v |-> RI(v[x])]
MZero(n) == [x \in 0..(n - 1) |-> VZero(n)]
MAdd(P, Q) == [x \in DOMAIN P |-> VAdd(P[x], Q[x])]
MScale(c, P) == [x \in DOMAIN P |-> VScale(c, P[x])]
MInt(P) == [x \in DOMAIN P |-> VInt(P[x])]

RECURSIVE VSumTo(_, _, _)
VSumTo(vs, n, zero) ==
    IF n = 0 THEN zero ELSE VAdd(VSumTo(vs, n - 1, zero), vs[n - 1])

RECURSIVE MSumTo(_, _, _)
MSumTo(ms, n, zero) ==
    IF n = 0 THEN zero ELSE MAdd(MSumTo(ms, n - 1, zero), ms[n - 1])

log_pdf(idx_test) ==
    LET m == get_num_rkhs_basis
        xi == RSum([idx \in 0..(m - 1) |->
                LET ai == basis_ai(idx)
                IN  RI(dx_dx_component(m_kernel, ai[1], idx_test, ai[2]))])
        beta_sum == RNeg(RSum([idx \in 0..(m - 1) |->
                LET ai == basis_ai(idx)
                IN  RMul(RI(dx_component(m_kernel, ai[1], idx_test, ai[2])),
                         m_alpha_beta[1 + idx])]))
    IN  RAdd(RDiv(RMul(m_alpha_beta[0], xi), RI(get_num_lhs)), beta_sum)

grad(idx_test) ==
    LET m == get_num_rkhs_basis
        D == get_num_dimensions
        xi_grad == VScale(RI(-1), VSumTo(
            [idx \in 0..(m - 1) |->
                LET ai == basis_ai(idx)
                IN  VInt(dx_i_dx_i_dx_j_component(m_kernel, ai[1], idx_test, ai[2], D))],
            m, VZero(D)))
        beta_sum_grad == VSumTo(
            [idx \in 0..(m - 1) |->
                LET ai == basis_ai(idx)
                IN  VScale(m_alpha_beta[1 + idx],
                        VInt(dx_i_dx_j_component(m_kernel, ai[1], idx_test, ai[2], D)))],
            m, VZero(D))
    IN  VAdd(VScale(RDiv(m_alpha_beta[0], RI(get_num_lhs)), xi_grad), beta_sum_grad)

\* Lines 301-306 and 356-361: beta_full_fake after the first n basis entries.
\* The store goes to offset ai.first*D + ai.second of a vector of length
\* N*D; a store outside it does not land in the vector.
lifted_offset(idx) ==
    LET ai == basis_ai(idx) IN ai[1] * get_num_dimensions + ai[2]

RECURSIVE beta_full_fake_to(_)
beta_full_fake_to(n) ==
    IF n = 0 THEN VZero(get_num_lhs * get_num_dimensions)
    ELSE LET prev == beta_full_fake_to(n - 1)
             off == lifted_offset(n - 1)
         IN  IF off \in DOMAIN prev
             THEN [prev EXCEPT ![off] = m_alpha_beta[1 + (n - 1)]]
             ELSE prev

beta_full_fake == beta_full_fake_to(get_num_rkhs_basis)

\* The offsets outside beta_full_fake that the loop stores to.
wild_stores ==
    {lifted_offset(idx) : idx \in 0..(get_num_rkhs_basis - 1)}
        \ (0..(get_num_lhs * get_num_dimensions - 1))

segment(v, start, n) == [x \in 0..(n - 1) |-> v[start + x]]

hessian(idx_test) ==
    LET N == get_num_lhs
        D == get_num_dimensions
        lifted == beta_full_fake
        xi_hessian == MSumTo(
            [idx_a \in 0..(N - 1) |->
                MInt(dx_i_dx_j_dx_k_dx_k_row_sum(m_kernel, idx_a, idx_test, D))],
            N, MZero(D))
        beta_sum_hessian == MScale(RI(-1), MSumTo(
            [idx_a \in 0..(N - 1) |->
                dx_i_dx_j_dx_k_dot_vec(m_kernel, idx_a, idx_test,
                                       segment(lifted, idx_a * D, D), D)],
            N, MZero(D)))
    IN  MAdd(MScale(RDiv(m_alpha_beta[0], RI(N)), xi_hessian), beta_sum_hessian)

hessian_diag(idx_test) ==
    LET N == get_num_lhs
        D == get_num_dimensions
        lifted == beta_full_fake
        xi_hessian_diag == [i \in 0..(D - 1) |->
            RSum([idx_a \in 0..(N - 1) |->
                RI(dx_i_dx_j_dx_k_dx_k_row_sum_component(m_kernel, idx_a, idx_test, i, i))])]
        beta_sum_hessian_diag == [i \in 0..(D - 1) |->
            RNeg(RSum([idx_a \in 0..(N - 1) |->
                dx_i_dx_j_dx_k_dot_vec_component(m_kernel, idx_a, idx_test,
                    segment(lifted, idx_a * D, D), i, i)]))]
    IN  VAdd(VScale(RDiv(m_alpha_beta[0], RI(N)), xi_hessian_diag),
             beta_sum_hessian_diag)

\* What an evaluator call leaves behind: the value returned, and the right
\* hand sample indices it passed to the oracle.
Returned(op, idx_test, value, asked) ==
    [op |-> op, idx_test |-> idx_test, status |-> "returned",
     value |-> value, oracle_rhs |-> asked]

LogPdf ==
    /\ phase = "fitted"
    /\ call = NoCall
    /\ \E idx_test \in TestIndices :
          call' = Returned("log_pdf", idx_test, log_pdf(idx_test),
                     IF get_num_rkhs_basis > 0 THEN {idx_test} ELSE {})
    /\ UNCHANGED <<estimator, par>>

Grad ==
    /\ phase = "fitted"
    /\ call = NoCall
    /\ \E idx_test \in TestIndices :
          call' = Returned("grad", idx_test, grad(idx_test),
                     IF get_num_rkhs_basis > 0 THEN {idx_test} ELSE {})
    /\ UNCHANGED <<estimator, par>>

Hessian ==
    /\ phase = "fitted"
    /\ call = NoCall
    /\ \E idx_test \in TestIndices :
          call' = Returned("hessian", idx_test, hessian(idx_test), {idx_test})
                    @@ [beta_full_fake |-> beta_full_fake, wild |-> wild_stores]
    /\ UNCHANGED <<estimator, par>>

HessianDiag ==
    /\ phase = "fitted"
    /\ call = NoCall
    /\ \E idx_test \in TestIndices :
          call' = Returned("hessian_diag", idx_test, hessian_diag(idx_test), {idx_test})
                    @@ [beta_full_fake |-> beta_full_fake, wild |-> wild_stores]
    /\ UNCHANGED <<estimator, par>>

\* Nystrom::leverage: SG_SERROR raises.
Leverage ==
    /\ phase # "none"
    /\ call = NoCall
    /\ call' = [op |-> "leverage", status |-> "error"]
    /\ UNCHANGED <<estimator, par>>

\* The caller takes the result of the call it made; the next call can start.
Return ==
    /\ call # NoCall
    /\ call' = NoCall
    /\ UNCHANGED <<estimator, par>>

(***************************************************************************)
(* The estimator's life: constructed once, then used, one call at a time.  *)
(***************************************************************************)
Init ==
    /\ phase = "none"
    /\ mode = "none"
    /\ m_data = [N |-> 0, D |-> 0]
    /\ m_kernel = [skew |-> 0, shift |-> 0]
    /\ m_lambda = 0
    /\ m_rkhs_basis_inds = << >>
    /\ m_alpha_beta = << >>
    /\ call = NoCall
    /\ par = NoPar

Next ==
    \/ NystromExplicit
    \/ NystromRandom
    \/ BuildSystem
    \/ Fit
    \/ LogPdf
    \/ Grad
    \/ Hessian
    \/ HessianDiag
    \/ Leverage
    \/ Return

Spec == Init /\ [][Next]_vars

\* Construction and system assembly alone.
NextBuild ==
    \/ NystromExplicit
    \/ NystromRandom
    \/ BuildSystem
    \/ Return

SpecBuild == Init /\ [][NextBuild]_vars

(***************************************************************************)
(* Properties of the stored basis.                                         *)
(***************************************************************************)
FlatIndices == 0..(get_num_lhs * get_num_dimensions - 1)

StrictlyIncreasing(J) ==
    \A x, y \in DOMAIN J : x < y => J[x] < J[y]

NoDuplicates(J) ==
    \A x, y \in DOMAIN J : x # y => J[x] # J[y]

\* C1: once constructed, by either constructor, the stored basis is strictly
\* increasing with every entry in [0, N*D).
C1_BasisSortedInRange ==
    phase # "none" =>
        /\ StrictlyIncreasing(m_rkhs_basis_inds)
        /\ \A x \in DOMAIN m_rkhs_basis_inds : m_rkhs_basis_inds[x] \in FlatIndices

\* A basis the specification calls valid: not empty, without duplicates,
\* every entry in [0, N*D).
ValidBasis ==
    /\ get_num_rkhs_basis >= 1
    /\ NoDuplicates(m_rkhs_basis_inds)
    /\ BasisInRange

\* C2: no estimator exists that was constructed from an explicit basis which
\* is empty, has a duplicate or has an entry outside [0, N*D).
C2_InvalidBasisRejected ==
    (phase # "none" /\ mode = "explicit") => ValidBasis

Evaluators == {"log_pdf", "grad", "hessian", "hessian_diag"}

\* C3: an evaluator called with idx_test outside [0, N) raises OutOfRange
\* and asks the oracle nothing.  Stated for estimators holding a valid basis.
C3_OutOfRangeRaised ==
    (/\ call.op \in Evaluators
     /\ call.idx_test \notin 0..(get_num_lhs - 1)
     /\ ValidBasis) =>
        /\ call.status = "OutOfRange"
        /\ call.oracle_rhs = {}

(***************************************************************************)
(* Properties of the assembled system.                                     *)
(***************************************************************************)
Symmetric(A) == \A r, c \in DOMAIN A : A[r][c] = A[c][r]

\* The oracle's mixed second derivative is symmetric on the basis pairs:
\* dx_dy(a, b, i, j) = dx_dy(b, a, j, i).
HessianSymmetricOnBasis ==
    \A r, c \in DOMAIN m_rkhs_basis_inds :
        LET p == basis_ai(r)
            q == basis_ai(c)
        IN  dx_dy_component(m_kernel, p[1], q[1], p[2], q[2])
              = dx_dy_component(m_kernel, q[1], p[1], q[2], p[2])

\* C4 as stated: for every basis in range and every oracle, the A that
\* build_system returns equals its transpose.
C4_SymmetricForAnyOracle ==
    (call.op = "build_system" /\ BasisInRange) => Symmetric(call.A)

\* C4 amended: for every basis in range, row 0 of A mirrors column 0, and A
\* equals its transpose when lambda = 0 or the oracle's mixed second
\* derivative is symmetric on the basis pairs.
C4_SymmetricForSymmetricHessian ==
    (call.op = "build_system" /\ BasisInRange) =>
        /\ \A c \in DOMAIN call.A : call.A[0][c] = call.A[c][0]
        /\ (m_lambda = 0 \/ HessianSymmetricOnBasis) => Symmetric(call.A)

C4_Witness ==
    /\ call.op = "build_system"
    /\ BasisInRange
    /\ get_num_rkhs_basis >= 2
    /\ NoDuplicates(m_rkhs_basis_inds)
    /\ m_lambda > 0
    /\ HessianSymmetricOnBasis
    /\ Symmetric(call.A)
    /\ call.A[1][2] # call.A[1][1]
    /\ call.A[0][1] # call.A[0][2]

\* C10: b[0] = -xi^2 with xi^2 the sum of k_xxyy(a(k), b, i(k), j) over the
\* basis entries k and all (b, j), divided by N^2; b[1+c] = -h[c] with h[c]
\* the sum of k_xxy(b, a, j, i) over all (b, j), divided by N, for
\* (a, i) = (J[c] div D, J[c] mod D); and A[0,0] = ||h||^2 / N + lambda * xi^2
\* for the same h and xi^2.
C10_RightHandSide ==
    call.op = "build_system" =>
        LET N == get_num_lhs
            D == get_num_dimensions
            J == m_rkhs_basis_inds
            m == get_num_rkhs_basis
            xi2 == Rat(ISum([c \in 0..(m - 1) |->
                        ISum([p \in FlatIndices |->
                            dx_dx_dy_dy_component(m_kernel, J[c] \div D, p \div D,
                                                  J[c] % D, p % D)])]),
                       N * N)
            h == [c \in 0..(m - 1) |->
                    Rat(ISum([p \in FlatIndices |->
                            dx_dx_dy_component(m_kernel, p \div D, J[c] \div D,
                                               p % D, J[c] % D)]),
                        N)]
        IN  /\ DOMAIN call.b = 0..m
            /\ call.b[0] = RNeg(xi2)
            /\ \A c \in 0..(m - 1) : call.b[1 + c] = RNeg(h[c])
            /\ call.A[0][0] =
                  RAdd(RDiv(RSum([c \in 0..(m - 1) |-> RMul(h[c], h[c])]), RI(N)),
                       RMul(RI(m_lambda), xi2))

C10_Witness ==
    /\ call.op = "build_system"
    /\ get_num_lhs = 2
    /\ get_num_rkhs_basis = 1
    /\ m_lambda > 0
    /\ call.b[0] # RZero
    /\ call.b[1] # RZero
    /\ call.A[0][0] # RZero

(***************************************************************************)
(* Properties of the lifted coefficient vector.                            *)
(***************************************************************************)
\* C9: the lifted vector built by hessian and hessian_diag holds theta[1+k]
\* at J[k] for every k and 0 at every index that is no entry of J.  Stated
\* for the stored bases whose entries lie in [0, N*D), for which every
\* store of the loop lands in the vector.
C9_LiftedCoefficients ==
    (call.op \in {"hessian", "hessian_diag"} /\ BasisInRange) =>
        /\ \A k \in DOMAIN m_rkhs_basis_inds :
              /\ m_rkhs_basis_inds[k] \in DOMAIN call.beta_full_fake
              /\ call.beta_full_fake[m_rkhs_basis_inds[k]] = m_alpha_beta[1 + k]
        /\ \A r \in DOMAIN call.beta_full_fake :
              (\A k \in DOMAIN m_rkhs_basis_inds : m_rkhs_basis_inds[k] # r)
                 => call.beta_full_fake[r] = RZero

(***************************************************************************)
(* The static codec idx_to_ai(idx, D), called on its own.                  *)
(***************************************************************************)
IdxToAi ==
    /\ phase = "none"
    /\ call = NoCall
    /\ \E n \in 1..CodecMaxN, D \in 1..CodecMaxD :
       \E idx \in 0..(n * D - 1) :
          call' = [op |-> "idx_to_ai", N |-> n, D |-> D, idx |-> idx,
                   ai |-> idx_to_ai(idx, D)]
    /\ UNCHANGED <<estimator, par>>

NextCodec ==
    \/ IdxToAi
    \/ Return

SpecCodec == Init /\ [][NextCodec]_vars

\* C7: for D > 0 and k in [0, N*D), idx_to_ai(k, D) = (k div D, k mod D),
\* a*D + i = k, 0 <= a < N, 0 <= i < D, and the codec is one-to-one from
\* [0, N*D) onto {0..N-1} x {0..D-1}.
C7_CodecRoundTrip ==
    call.op = "idx_to_ai" =>
        LET a == call.ai[1]
            i == call.ai[2]
            All == 0..(call.N * call.D - 1)
        IN  /\ a = call.idx \div call.D
            /\ i = call.idx % call.D
            /\ a * call.D + i = call.idx
            /\ a \in 0..(call.N - 1)
            /\ i \in 0..(call.D - 1)
            /\ \A k \in All : idx_to_ai(k, call.D) = call.ai => k = call.idx
            /\ \A p \in (0..(call.N - 1)) \X (0..(call.D - 1)) :
                  \E k \in All : idx_to_ai(k, call.D) = p

C7_Witness ==
    /\ call.op = "idx_to_ai"
    /\ call.N >= 2
    /\ call.D >= 2
    /\ call.ai[1] >= 1
    /\ call.ai[2] >= 1
    /\ call.ai[1] # call.ai[2]

(***************************************************************************)
(* Nystrom::pinv_self_adjoint, on diagonal matrices.                       *)
(***************************************************************************)
\* CMath::MACHINE_EPSILON, as a rational; scaled so that the cut-off falls
\* among the eigenvalues modelled.
MACHINE_EPSILON == <<1, 32>>

Diag(d) ==
    [r \in DOMAIN d |-> [c \in DOMAIN d |-> IF r = c THEN RI(d[r]) ELSE RZero]]

\* Eigen::SelfAdjointEigenSolver on diag(d): the eigenvalues in ascending
\* order and, as columns of V, the unit vectors they belong to.
EigenRank(d, x) ==
    Cardinality({y \in DOMAIN d : d[y] < d[x] \/ (d[y] = d[x] /\ y < x)})

eigenvalues(d) ==
    [k \in DOMAIN d |-> RI(d[CHOOSE x \in DOMAIN d : EigenRank(d, x) = k])]

eigenvectors(d) ==
    [r \in DOMAIN d |-> [k \in DOMAIN d |->
        IF EigenRank(d, r) = k THEN RI(1) ELSE RZero]]

RECURSIVE RMaxTo(_, _)
RMaxTo(v, n) ==
    IF n = 1 THEN v[0]
    ELSE LET rest == RMaxTo(v, n - 1)
         IN  IF RLt(rest, v[n - 1]) THEN v[n - 1] ELSE rest

maxCoeff(v) == RMaxTo(v, VLen(v))

pinv_tol_without_epsilon(m, s) == RMul(RI(m), maxCoeff(s))

\* Line 263.
pinv_tol(m, s) == RMul(RMul(MACHINE_EPSILON, RI(m)), maxCoeff(s))

inv_s_inclusive(s, tol) ==
    [i \in DOMAIN s |-> IF RLe(tol, s[i]) THEN RDiv(RI(1), s[i]) ELSE RZero]

\* Lines 265-272.
inv_s(s, tol) ==
    [i \in DOMAIN s |-> IF RLt(tol, s[i]) THEN RDiv(RI(1), s[i]) ELSE RZero]

MatMul(P, Q) ==
    [r \in DOMAIN P |-> [c \in DOMAIN P |->
        RSum([k \in DOMAIN P |-> RMul(P[r][k], Q[k][c])])]]

Transpose(P) == [r \in DOMAIN P |-> [c \in DOMAIN P |-> P[c][r]]]

asDiagonal(v) ==
    [r \in DOMAIN v |-> [c \in DOMAIN v |-> IF r = c THEN v[r] ELSE RZero]]

pinv_self_adjoint(d) ==
    LET m == VLen(d)
        s == eigenvalues(d)
        V == eigenvectors(d)
    IN  MatMul(MatMul(V, asDiagonal(inv_s(s, pinv_tol(m, s)))), Transpose(V))

PinvSelfAdjoint ==
    /\ phase = "none"
    /\ call = NoCall
    /\ \E m \in 1..MaxSide :
       \E d \in [0..(m - 1) -> (-MaxEig)..MaxEig] :
          call' = [op |-> "pinv_self_adjoint", d |-> d, A |-> Diag(d),
                   A_pinv |-> pinv_self_adjoint(d)]
    /\ UNCHANGED <<estimator, par>>

NextPinv ==
    \/ PinvSelfAdjoint
    \/ Return

SpecPinv == Init /\ [][NextPinv]_vars

IMax(S) == CHOOSE x \in S : \A y \in S : y <= x

Range(f) == {f[x] : x \in DOMAIN f}

\* 10 * eps * m * ||M||, with ||M|| = max |s_i| for M = diag(s).
MoorePenroseTolerance(d) ==
    RMul(RMul(RI(10 * VLen(d)), MACHINE_EPSILON),
         RI(IMax({Abs(x) : x \in Range(d)})))

Within(P, Q, tol) ==
    \A r, c \in DOMAIN P : RLe(RAbs(RSub(P[r][c], Q[r][c])), tol)

\* C5 as stated: for every symmetric M, negative eigenvalues included,
\* pinv(M) M pinv(M) = pinv(M) and M pinv(M) M = M within the tolerance.
C5_MoorePenroseForAnySymmetric ==
    call.op = "pinv_self_adjoint" =>
        LET M == call.A
            P == call.A_pinv
            tol == MoorePenroseTolerance(call.d)
        IN  /\ Within(MatMul(MatMul(P, M), P), P, tol)
            /\ Within(MatMul(MatMul(M, P), M), M, tol)

\* C5 amended: pinv(M) M pinv(M) = pinv(M) for every symmetric M, and
\* M pinv(M) M = M within the tolerance for M without a negative eigenvalue.
C5_MoorePenroseForPositiveSemiDefinite ==
    call.op = "pinv_self_adjoint" =>
        LET M == call.A
            P == call.A_pinv
            tol == MoorePenroseTolerance(call.d)
        IN  /\ MatMul(MatMul(P, M), P) = P
            /\ (\A x \in DOMAIN call.d : call.d[x] >= 0)
                  => Within(MatMul(MatMul(M, P), M), M, tol)

\* A positive semi-definite M with one eigenvalue inverted and a smaller,
\* non-zero one cut off.
C5_Witness ==
    /\ call.op = "pinv_self_adjoint"
    /\ VLen(call.d) = 2
    /\ call.d[0] > 0
    /\ call.d[1] > 0
    /\ call.A_pinv[0][0] # RZero
    /\ call.A_pinv[1][1] = RZero

\* C6: with tau = eps * m' * max_i s_i, an eigenvalue s_i > tau becomes
\* 1/s_i and an eigenvalue s_i <= tau becomes 0, so that pinv(diag(s)) is
\* diag(s+).
C6_ToleranceRule ==
    call.op = "pinv_self_adjoint" =>
        LET d == call.d
            m == VLen(d)
            smax == IMax(Range(d))
            above(x) == x * MACHINE_EPSILON[2] > MACHINE_EPSILON[1] * m * smax
        IN  \A r, c \in DOMAIN d :
              call.A_pinv[r][c] =
                 IF r = c /\ above(d[r]) THEN <<IF d[r] > 0 THEN 1 ELSE -1, Abs(d[r])>>
                 ELSE RZero

\* One eigenvalue equal to tau (cut off), the other inverted; placed so
\* that the solver reorders them.
C6_Witness ==
    /\ call.op = "pinv_self_adjoint"
    /\ VLen(call.d) = 2
    /\ call.d[1] > 0
    /\ call.d[1] * MACHINE_EPSILON[2] = MACHINE_EPSILON[1] * 2 * call.d[0]
    /\ call.A_pinv[1][1] = RZero
    /\ call.A_pinv[0][0] = <<1, call.d[0]>>

(***************************************************************************)
(* The `omp parallel for` loops of compute_h (lines 173-183) and of        *)
(* build_system (lines 130-145), one worker per basis position idx, the    *)
(* workers' steps interleaved in any order.  par holds the shared buffers  *)
(* (h, col_sub_sampled_hessian as G, sub_sampled_hessian as Ghat; a cell   *)
(* not stored to yet is absent), each worker's position and register (<<>> *)
(* when empty, <<v>> when it holds v), and                                 *)
(* the log of the accesses made: <<worker, buffer, cell, "r" | "w">>.      *)
(***************************************************************************)
Workers == 0..(get_num_rkhs_basis - 1)
NumFlat == get_num_lhs * get_num_dimensions

StartComputeH ==
    /\ phase = "constructed"
    /\ call = NoCall
    /\ par = NoPar
    /\ par' = [loop |-> "compute_h",
               h |-> [w \in Workers |-> 0],
               reg |-> [w \in Workers |-> << >>],
               pos |-> [w \in Workers |-> 0],
               G |-> << >>, Ghat |-> << >>,
               log |-> {}]
    /\ UNCHANGED <<estimator, call>>

\* The term that worker w adds at its n-th pass through line 182.
h_term(w, n) ==
    LET bj == basis_ai(w)
        at == idx_to_ai(n, get_num_dimensions)
    IN  dx_dx_dy_component(m_kernel, at[1], bj[1], at[2], bj[2])

\* Line 182, h[idx] += ..., first half: read h[idx] and add.
HLoad(w) ==
    /\ par.loop = "compute_h"
    /\ par.pos[w] < NumFlat
    /\ par.reg[w] = << >>
    /\ par' = [par EXCEPT !.reg[w] = <<par.h[w] + h_term(w, par.pos[w])>>,
                          !.log = @ \cup {<<w, "h", w, "r">>}]
    /\ UNCHANGED <<estimator, call>>

\* Line 182, second half: store the sum to h[idx].
HStore(w) ==
    /\ par.loop = "compute_h"
    /\ par.reg[w] # << >>
    /\ par' = [par EXCEPT !.h[w] = par.reg[w][1],
                          !.reg[w] = << >>,
                          !.pos[w] = @ + 1,
                          !.log = @ \cup {<<w, "h", w, "w">>}]
    /\ UNCHANGED <<estimator, call>>

\* The loop of compute_h is over; line 185 divides h by N, and the loop of
\* build_system starts.
HJoin ==
    /\ par.loop = "compute_h"
    /\ \A w \in Workers : par.pos[w] = NumFlat /\ par.reg[w] = << >>
    /\ par' = [par EXCEPT !.loop = "build_system",
                          !.h = [w \in Workers |-> Rat(par.h[w], get_num_lhs)],
                          !.pos = [w \in Workers |-> 0]]
    /\ UNCHANGED <<estimator, call>>

\* Lines 139-140: worker w stores cell (row_idx, w) of G.
GStore(w) ==
    /\ par.loop = "build_system"
    /\ par.pos[w] < NumFlat
    /\ LET cell == <<par.pos[w], w>>
       IN  par' = [par EXCEPT !.G = (cell :> hessian_cell(cell[1], cell[2])) @@ @,
                              !.pos[w] = @ + 1,
                              !.log = @ \cup {<<w, "G", cell, "w">>}]
    /\ UNCHANGED <<estimator, call>>

\* Where SGMatrix::operator()(r, c) reads in the ND x m column-major buffer;
\* <<-1, off>> stands for the offset off outside the buffer.
buffer_cell(r, c) ==
    LET off == r + c * NumFlat
    IN  IF off >= 0 /\ off < NumFlat * get_num_rkhs_basis
        THEN <<off % NumFlat, off \div NumFlat>>
        ELSE <<-1, off>>

\* Line 144: worker w reads G(m_rkhs_basis_inds[row_idx], w) and stores it to
\* Ghat(row_idx, w).  A cell nobody stored to yet, or one outside the
\* buffer, reads as a stray value.
GhatCopy(w) ==
    /\ par.loop = "build_system"
    /\ par.pos[w] >= NumFlat
    /\ par.pos[w] < NumFlat + get_num_rkhs_basis
    /\ LET row_idx == par.pos[w] - NumFlat
           from == buffer_cell(m_rkhs_basis_inds[row_idx], w)
       IN  \E v \in (IF from \in DOMAIN par.G THEN {par.G[from]} ELSE GarbageVals) :
              par' = [par EXCEPT !.Ghat = (<<row_idx, w>> :> v) @@ @,
                                 !.pos[w] = @ + 1,
                                 !.log = @ \cup {<<w, "G", from, "r">>,
                                                 <<w, "Ghat", <<row_idx, w>>, "w">>}]
    /\ UNCHANGED <<estimator, call>>

BJoin ==
    /\ par.loop = "build_system"
    /\ \A w \in Workers : par.pos[w] = NumFlat + get_num_rkhs_basis
    /\ par' = [par EXCEPT !.loop = "done"]
    /\ UNCHANGED <<estimator, call>>

NextPar ==
    \/ NystromExplicit
    \/ NystromRandom
    \/ StartComputeH
    \/ \E w \in Workers : HLoad(w)
    \/ \E w \in Workers : HStore(w)
    \/ HJoin
    \/ \E w \in Workers : GStore(w)
    \/ \E w \in Workers : GhatCopy(w)
    \/ BJoin

SpecPar == Init /\ [][NextPar]_vars

\* Worker w stores only to h[w] and to column w of G and of Ghat.
OwnStores ==
    \A e \in par.log : e[4] = "w" =>
        IF e[2] = "h" THEN e[3] = e[1] ELSE e[3][2] = e[1]

\* No cell that some worker stores to is accessed by another worker.
NoSharedCell ==
    \A e, f \in par.log :
        (e[4] = "w" /\ f[2] = e[2] /\ f[3] = e[3]) => f[1] = e[1]

\* Worker w reads only cells of G of its own column.
OwnReads ==
    \A e \in par.log : (e[2] = "G" /\ e[4] = "r") => e[3][2] = e[1]

\* The buffers after both loops are those of the sequential computation.
SequentialResult ==
    /\ par.h = compute_h
    /\ par.G = [cell \in AllCells |-> hessian_cell(cell[1], cell[2])]
    /\ \A r, c \in Workers :
          /\ <<m_rkhs_basis_inds[r], c>> \in DOMAIN par.G
          /\ par.Ghat[<<r, c>>] = par.G[<<m_rkhs_basis_inds[r], c>>]

\* C8: in both loops a worker stores only to its own slot or column, reads
\* only cells of G it stored itself, shares no stored cell with another
\* worker, and the buffers end as the sequential computation leaves them,
\* with Ghat[r,c] = G[J[r], c].
C8_WorkersDisjoint ==
    /\ par.loop \in {"compute_h", "build_system", "done"} =>
          OwnStores /\ OwnReads /\ NoSharedCell
    /\ par.loop = "done" => SequentialResult

\* The same for a basis whose entries all lie in [0, N*D).
C8_WorkersDisjointInRange ==
    BasisInRange => C8_WorkersDisjoint

=============================================================================
